---- MODULE Spec2Model ----
(***************************************************************************)
(* Model of packages/react-native/cpp/RNSwephImpl.{h,cpp}: the class       *)
(* facebook::react::RNSwephImpl with its constructor and its one method    *)
(* swe_julday, called by several threads on several instances.             *)
(*                                                                         *)
(* A double is a record [cls, num]: cls is "finite" or "nan" ("unset" for   *)
(* a value not yet returned); for a finite value num is the value in      *)
(* units of 1/24 day (one hour), so                                        *)
(* 2451545.25 is num = 2451545 * 24 + 6.  The arguments of a call are      *)
(* integer-valued doubles and are written as integers.                     *)
(***************************************************************************)
EXTENDS Integers, FiniteSets

\* Bounds of the model.
NumThreads == 2
MaxObjects == 2

Threads == 1..NumThreads
ObjectIds == 1..MaxObjects

VARIABLES objects, pc, frame, retval, last

vars == <<objects, pc, frame, retval, last>>

----------------------------------------------------------------------------
\* Doubles.

Fin(n) == [cls |-> "finite", num |-> n]
NaN == [cls |-> "nan", num |-> 0]
Unset == [cls |-> "unset", num |-> 0]

\* The literal 0.0 of `return 0.0;`.
Zero == Fin(0)

----------------------------------------------------------------------------
\* Calendar vocabulary of the specification (used by the properties only).

CalendarSystem == [JULIAN |-> 0, GREGORIAN |-> 1]

Args(y, m, d, h, g) == [year |-> y, month |-> m, day |-> d, hour |-> h, gregflag |-> g]

J2000Noon == Args(2000, 1, 1, 12, CalendarSystem.GREGORIAN)
J2000Eve == Args(2000, 1, 1, 18, CalendarSystem.GREGORIAN)
J2000NoonJul == Args(2000, 1, 1, 12, CalendarSystem.JULIAN)
Oct4Jul == Args(1582, 10, 4, 0, CalendarSystem.JULIAN)
Oct15Greg == Args(1582, 10, 15, 0, CalendarSystem.GREGORIAN)
Feb30 == Args(2023, 2, 30, 0, CalendarSystem.GREGORIAN)
Month13 == Args(2000, 13, 1, 0, CalendarSystem.GREGORIAN)
BadFlag == Args(2000, 1, 1, 12, 2)
\* Noon of 1 January 4713 BCE (astronomical year -4712), Julian calendar.
Epoch == Args(-4712, 1, 1, 12, CalendarSystem.JULIAN)

\* The argument tuples the callers pass.
Inputs == {J2000Noon, J2000Eve, J2000NoonJul, Oct4Jul, Oct15Greg, Feb30, Month13, BadFlag,
     Epoch}

IsLeap(y, g) ==
    IF g = CalendarSystem.GREGORIAN
    THEN y % 4 = 0 /\ (y % 100 # 0 \/ y % 400 = 0)
    ELSE y % 4 = 0

DaysInMonth(y, m, g) ==
    IF m = 2 THEN (IF IsLeap(y, g) THEN 29 ELSE 28)
    ELSE IF m \in {4, 6, 9, 11} THEN 30 ELSE 31

KnownSystem(a) == a.gregflag \in {CalendarSystem.JULIAN, CalendarSystem.GREGORIAN}

ValidFields(a) ==
    /\ a.month \in 1..12
    /\ a.day \in 1..DaysInMonth(a.year, a.month, a.gregflag)

ValidDate(a) == KnownSystem(a) /\ ValidFields(a) /\ a.hour \in 0..23

Earlier(a, b) ==
    \/ a.year < b.year
    \/ a.year = b.year /\ a.month < b.month
    \/ a.year = b.year /\ a.month = b.month /\ a.day < b.day
    \/ a.year = b.year /\ a.month = b.month /\ a.day = b.day /\ a.hour < b.hour

SameDate(a, b) ==
    a.year = b.year /\ a.month = b.month /\ a.day = b.day /\ a.hour = b.hour

----------------------------------------------------------------------------
\* The program.

NoFrame == [self |-> 0, args |-> Args(0, 0, 0, 0, 0)]
NoCall == [args |-> Args(0, 0, 0, 0, 0), ret |-> Unset]

TypeOK ==
    /\ objects \subseteq ObjectIds
    /\ pc \in [Threads -> {"idle", "body", "returned"}]
    /\ frame \in [Threads -> [self : ObjectIds \cup {0}, args : Inputs \cup {NoFrame.args}]]
    /\ \A t \in Threads : retval[t] \in {Unset, Zero}
    /\ last.ret \in {Unset, Zero}

\* One instance has been constructed; no call is in progress.
Init ==
    /\ objects = {1}
    /\ pc = [t \in Threads |-> "idle"]
    /\ frame = [t \in Threads |-> NoFrame]
    /\ retval = [t \in Threads |-> Unset]
    /\ last = NoCall

\* RNSwephImpl::RNSwephImpl() {} : the class has no data members, so a new
\* instance is only its identity.
RNSwephImpl(o) ==
    /\ o \notin objects
    /\ objects' = objects \cup {o}
    /\ UNCHANGED <<pc, frame, retval, last>>

\* A thread calls self->swe_julday(year, month, day, hour, gregflag): the
\* arguments are passed by value into the call's own frame.
Call(t, o, a) ==
    /\ pc[t] = "idle"
    /\ o \in objects
    /\ pc' = [pc EXCEPT ![t] = "body"]
    /\ frame' = [frame EXCEPT ![t] = [self |-> o, args |-> a]]
    /\ UNCHANGED <<objects, retval, last>>

\* A body that reports NaN for hour 0 (a division by the hour).
swe_julday_nan(self, year, month, day, hour, gregflag) ==
    IF hour = 0 THEN NaN ELSE Zero

\* A body that reports an out-of-range month with NaN as an error value.
swe_julday_reject(self, year, month, day, hour, gregflag) ==
    IF month \in 1..12 THEN Zero ELSE NaN

\* A body whose result depends on the instance it is called on.
swe_julday_self(self, year, month, day, hour, gregflag) ==
    Fin(self)

\* A body that returns the day fraction hour/24 instead of the constant.
swe_julday_frac(self, year, month, day, hour, gregflag) ==
    Fin(hour)

\* The value of RNSwephImpl::swe_julday: `return 0.0;`, whatever the arguments.
swe_julday(self, year, month, day, hour, gregflag) ==
    Zero

\* A body that leaves its result in one slot shared by every thread.
BodyShared(t) ==
    /\ pc[t] = "body"
    /\ pc' = [pc EXCEPT ![t] = "returned"]
    /\ retval' = [u \in Threads |->
                    swe_julday(frame[t].self, frame[t].args.year, frame[t].args.month,
                               frame[t].args.day, frame[t].args.hour,
                               frame[t].args.gregflag)]
    /\ UNCHANGED <<objects, frame, last>>

\* The body of swe_julday runs in thread t and returns its value to the caller.
Body(t) ==
    /\ pc[t] = "body"
    /\ pc' = [pc EXCEPT ![t] = "returned"]
    /\ retval' = [retval EXCEPT ![t] =
                    swe_julday(frame[t].self, frame[t].args.year, frame[t].args.month,
                               frame[t].args.day, frame[t].args.hour,
                               frame[t].args.gregflag)]
    /\ UNCHANGED <<objects, frame, last>>

\* The caller takes the returned double; the call's frame is gone.  `last`
\* keeps the most recently completed call for comparison with later ones.
Take(t) ==
    /\ pc[t] = "returned"
    /\ last' = [args |-> frame[t].args, ret |-> retval[t]]
    /\ pc' = [pc EXCEPT ![t] = "idle"]
    /\ frame' = [frame EXCEPT ![t] = NoFrame]
    /\ retval' = [retval EXCEPT ![t] = Unset]
    /\ UNCHANGED objects

Next ==
    \/ \E o \in ObjectIds : RNSwephImpl(o)
    \/ \E t \in Threads, o \in ObjectIds, a \in Inputs : Call(t, o, a)
    \/ \E t \in Threads : Body(t)
    \/ \E t \in Threads : Take(t)

Spec == Init /\ [][Next]_vars

----------------------------------------------------------------------------
\* Observations the properties are stated over.

\* The calls that have returned a double: those whose value the caller has
\* not taken yet, and the call completed most recently.
Results ==
    {[args |-> frame[t].args, ret |-> retval[t]] : t \in {u \in Threads : pc[u] = "returned"}}
        \cup (IF last = NoCall THEN {} ELSE {last})

\* Thread t executes the body of swe_julday in this step.
BodyStep(t) == pc[t] = "body" /\ pc'[t] = "returned"

\* Calls with equal arguments have returned equal doubles.
Deterministic ==
    \A c1, c2 \in Results : c1.args = c2.args => c1.ret = c2.ret

IsFinite(d) == d.cls = "finite"

----------------------------------------------------------------------------
\* C1: a call with year=2000, month=1, day=1, hour=12 and the Gregorian flag
\* returns exactly 2451545.0.
C1_J2000Epoch ==
    \A c \in Results : c.args = J2000Noon => c.ret = Fin(2451545 * 24)

\* C2: for a fixed calendar system the result is strictly increasing in
\* calendar date order: of two valid dates under the same flag, the earlier
\* one (by year, month, day, hour) gets the strictly smaller result.
C2_StrictlyIncreasing ==
    \A c1, c2 \in Results :
        ( /\ ValidDate(c1.args) /\ ValidDate(c2.args)
          /\ c1.args.gregflag = c2.args.gregflag
          /\ Earlier(c1.args, c2.args) )
        => IsFinite(c1.ret) /\ IsFinite(c2.ret) /\ c1.ret.num < c2.ret.num

C4_RoundTripInvertible ==
    \A c1, c2 \in Results :
        ( /\ ValidDate(c1.args) /\ ValidDate(c2.args)
          /\ c1.args.gregflag = c2.args.gregflag
          /\ ~SameDate(c1.args, c2.args) )
        => c1.ret # c2.ret

\* C5: the result for 1582-10-04 0h under the Julian flag and the result for
\* 1582-10-15 0h under the Gregorian flag differ by exactly one day.
C5_CalendarBoundary ==
    \A c1, c2 \in Results :
        (c1.args = Oct4Jul /\ c2.args = Oct15Greg)
        => /\ IsFinite(c1.ret) /\ IsFinite(c2.ret)
           /\ (c2.ret.num - c1.ret.num = 24 \/ c1.ret.num - c2.ret.num = 24)

\* C6: the hour contributes hour/24 of a day: a call with year=2000, month=1,
\* day=1, hour=18 and the Gregorian flag returns exactly 2451545.25.
C6_FractionalHour ==
    \A c \in Results : c.args = J2000Eve => c.ret = Fin(2451545 * 24 + 6)

\* C7: for every valid input the call completes and returns a finite double:
\* its body can always run to its return, and the value returned is neither
\* NaN nor an infinity.
C7_FiniteForValid ==
    /\ \A t \in Threads : (pc[t] = "body" /\ ValidDate(frame[t].args)) => ENABLED Body(t)
    /\ \A c \in Results : ValidDate(c.args) => IsFinite(c.ret)

C7_Witness ==
    \E t \in Threads :
        pc[t] = "returned" /\ ValidDate(frame[t].args) /\ IsFinite(retval[t])

\* C8: swe_julday is pure: executing its body changes neither the set of
\* RNSwephImpl instances, nor any call frame, nor the record of completed
\* calls, and calls with equal arguments, on the same or on different
\* instances, one after another or side by side, return equal results.
C8_Pure ==
    [][ /\ \A t \in Threads :
              BodyStep(t) => objects' = objects /\ frame' = frame /\ last' = last
        /\ Deterministic' ]_vars

C8_Witness ==
    /\ \E t, u \in Threads :
          /\ pc[t] = "returned" /\ pc[u] = "returned"
          /\ frame[t].args = frame[u].args
          /\ frame[t].self # frame[u].self
          /\ last.args = frame[t].args
          /\ retval[t] = retval[u] /\ last.ret = retval[t]

\* C9: calls running concurrently in several threads without locking do not
\* interfere: the step in which one thread executes the body writes only that
\* thread's return value, and leaves every other thread's position, frame and
\* return value as they were, so each call returns what it returns alone.
C9_NoInterference ==
    [][ \A t, u \in Threads :
            (BodyStep(t) /\ u # t)
            => pc'[u] = pc[u] /\ frame'[u] = frame[u] /\ retval'[u] = retval[u] ]_vars

C9_Witness ==
    \E t, u \in Threads :
        /\ t # u
        /\ pc[t] = "returned" /\ pc[u] = "body"
        /\ retval[t] = Zero /\ retval[u] = Unset

\* C10: the stub returns the constant 0.0 for every combination of arguments,
\* out-of-range months and days and unknown gregflag values included.
C10_ConstantZero ==
    \A c \in Results : c.ret = Zero

C10_Witness ==
    \E t, u \in Threads :
        /\ pc[t] = "returned" /\ pc[u] = "returned"
        /\ frame[t].args = BadFlag /\ frame[u].args = Feb30
        /\ last.args = J2000Eve
        /\ retval[t] = Zero /\ retval[u] = Zero /\ last.ret = Zero

====
